---- MODULE Spec2Model ----
(***************************************************************************)
(* vocal-bridge-mcp v2.0.0 (src/src/index.js): the streamable-HTTP session *)
(* map (POST /mcp, DELETE /mcp), the CallTool dispatcher and the SQLite    *)
(* entity/relation store.                                                  *)
(*                                                                         *)
(* Node runs the handlers on one event loop: a handler runs without        *)
(* interruption up to its next await, so every action below is the code    *)
(* between two awaits.  The memory* functions are synchronous.             *)
(***************************************************************************)
EXTENDS Integers, Sequences, FiniteSets, TLC

\* ---------------------------------------------------------------- bounds
MaxReq == 2       \* POST /mcp requests that may be in flight at once
MaxUUID == 3      \* randomUUID() calls under Spec (session, entity, relation ids)
MaxStoreUUID == 4 \* randomUUID() calls under StoreSpec and QuerySpec
MaxRelUUID == 5   \* randomUUID() calls under RelSpec
MaxObj == 2       \* createMCPServer() / new StreamableHTTPServerTransport calls
MaxTime == 1      \* CURRENT_TIMESTAMP values 0..MaxTime (seconds)

\* ---------------------------------------------------------------- values
\* the n-th value returned by randomUUID(): version 4 UUIDs, modelled as
\* never repeating
UUIDS == <<"u1", "u2", "u3", "u4", "u5", "u6", "u7", "u8">>

NoHeader == "none"      \* request without Mcp-Session-Id header (undefined)
Bogus == "bogus"        \* a header value the server never issued

NoObj == 0              \* 'let transport; let server;' not yet assigned

Methods == {"initialize", "tools/list", "tools/call"}

\* JavaScript values that occur as tool arguments
Undefined == [t |-> "undefined"]
Null == [t |-> "null"]
EmptyObj == [t |-> "object", kv |-> <<>>]
Obj1 == [t |-> "object", kv |-> <<"k", "v">>]

Range(f) == {f[x] : x \in DOMAIN f}

VARIABLES
  sessions,    \* const sessions = new Map(): id -> {transport, server}
  uuids,       \* number of randomUUID() results so far
  objs,        \* number of server/transport pairs constructed so far
  tinit,       \* transports whose _initialized flag is set
  topts,       \* transport -> the closures passed to its constructor
  req,         \* the POST /mcp handler invocations that are suspended
  entities,    \* table entities: id -> row
  relations,   \* table relations: id -> row
  now,         \* CURRENT_TIMESTAMP
  resp,        \* the latest response sent (POST /mcp, DELETE /mcp)
  origin,      \* history: id -> the pair first recorded under it
  deleted,     \* history: ids removed by DELETE /mcp
  dropped,     \* history: session ids whose client connection has dropped
  fs,          \* the files under /tmp and the fs_* tool calls in flight
  sse          \* the SSE variant (unnamed/part_001): const transports = new Map()

vars == <<sessions, uuids, objs, tinit, topts, req, entities, relations,
          now, resp, origin, deleted, dropped, fs, sse>>

\* ------------------------------------------------- entity/relation store
Absent == "<undefined>"     \* a string argument the caller left out
Names == {"n1"}             \* entity names that are not ids
Types == {"t"}
Contents == {"c1", "c2"}
RelTypes == {"depends_on"}

\* better-sqlite3 is compiled with SQLITE_DEFAULT_FOREIGN_KEYS=1, so the
\* FOREIGN KEY clauses of table relations are enforced
ForeignKeys == TRUE

\* JSON.stringify on the argument values above, as a token sequence
JSONstringify(v) ==
  IF v.t = "null" THEN <<"null">>
  ELSE IF v.kv = <<>> THEN <<"{", "}">>
  ELSE <<"{", v.kv[1], ":", v.kv[2], "}">>

\* JSON.parse on such a token sequence
JSONparse(s) ==
  IF s[1] = "null" THEN [t |-> "null"]
  ELSE IF Len(s) = 2 THEN [t |-> "object", kv |-> <<>>]
  ELSE [t |-> "object", kv |-> <<s[2], s[4]>>]

\* randomUUID() with a generator that repeats its first value
randomUUIDRepeats(n) == UUIDS[1]

\* the n-th result of randomUUID()
randomUUID(n) == UUIDS[n]

\* memoryStore that writes '{}' whatever metadata it is given
memoryStoreDropsMetadata(ents, id, name, type, content, metadata, ts) ==
  LET row == [name |-> name, type |-> type, content |-> content,
              metadata |-> JSONstringify(EmptyObj),
              created_at |-> ts, updated_at |-> ts]
  IN [x \in DOMAIN ents \cup {id} |-> IF x = id THEN row ELSE ents[x]]

\* memoryStore as INSERT OR REPLACE keyed by name: earlier entities of that
\* name are replaced
memoryStoreReplacesName(ents, id, name, type, content, metadata, ts) ==
  LET md == IF metadata = Undefined THEN EmptyObj ELSE metadata
      row == [name |-> name, type |-> type, content |-> content,
              metadata |-> JSONstringify(md),
              created_at |-> ts, updated_at |-> ts]
      keep == {x \in DOMAIN ents : ents[x].name # name}
  IN [x \in keep \cup {id} |-> IF x = id THEN row ELSE ents[x]]

\* memoryStore: the table after INSERT INTO entities (id, name, type,
\* content, metadata); metadata = {} when the argument is undefined
memoryStore(ents, id, name, type, content, metadata, ts) ==
  LET md == IF metadata = Undefined THEN EmptyObj ELSE metadata
      row == [name |-> name, type |-> type, content |-> content,
              metadata |-> JSONstringify(md),
              created_at |-> ts, updated_at |-> ts]
  IN [x \in DOMAIN ents \cup {id} |-> IF x = id THEN row ELSE ents[x]]

\* memoryUpdate with WHERE id = ? OR name = ?
memoryUpdateByName(ents, id, content, metadata, ts) ==
  LET md == IF metadata = Undefined THEN Null ELSE metadata IN
  [x \in DOMAIN ents |->
     IF x = id \/ ents[x].name = id
     THEN [ents[x] EXCEPT !.content = content,
                          !.updated_at = ts,
                          !.metadata = IF md # Null
                                       THEN JSONstringify(md)
                                       ELSE @]
     ELSE ents[x]]

\* memoryUpdate without the test metadata !== null: 'null' is written when
\* no metadata is given
memoryUpdateAlwaysMetadata(ents, id, content, metadata, ts) ==
  LET md == IF metadata = Undefined THEN Null ELSE metadata IN
  [x \in DOMAIN ents |->
     IF x = id
     THEN [ents[x] EXCEPT !.content = content,
                          !.updated_at = ts,
                          !.metadata = JSONstringify(md)]
     ELSE ents[x]]

\* memoryUpdate: the table after UPDATE entities SET content = ?,
\* updated_at = CURRENT_TIMESTAMP [, metadata = ?] WHERE id = ?
memoryUpdate(ents, id, content, metadata, ts) ==
  LET md == IF metadata = Undefined THEN Null ELSE metadata IN
  [x \in DOMAIN ents |->
     IF x = id
     THEN [ents[x] EXCEPT !.content = content,
                          !.updated_at = ts,
                          !.metadata = IF md # Null
                                       THEN JSONstringify(md)
                                       ELSE @]
     ELSE ents[x]]

\* result.changes of that UPDATE
memoryUpdateChanges(ents, id) == Cardinality({x \in DOMAIN ents : x = id})

\* memoryRecall: the rows of SELECT * FROM entities WHERE id = ? OR name = ?
\* stmt.get() returns the first one; SQL fixes no order among them
memoryRecallRows(ents, nameOrId) ==
  {x \in DOMAIN ents : x = nameOrId \/ ents[x].name = nameOrId}

\* memoryRecall: what is returned when stmt.get() yields row x
memoryRecallResult(ents, x) ==
  [found |-> TRUE, id |-> x, name |-> ents[x].name, type |-> ents[x].type,
   content |-> ents[x].content,
   metadata |-> JSONparse(IF ents[x].metadata = <<>> THEN <<"{", "}">>
                          ELSE ents[x].metadata),
   created_at |-> ents[x].created_at, updated_at |-> ents[x].updated_at]

\* memoryRecall: every result the call can return
memoryRecall(ents, nameOrId) ==
  IF memoryRecallRows(ents, nameOrId) = {}
  THEN {[found |-> FALSE]}
  ELSE {memoryRecallResult(ents, x) : x \in memoryRecallRows(ents, nameOrId)}

\* DELETE FROM entities WHERE id = ? is rejected while a relation row
\* references the entity
memoryDeleteRejected(rels, id) ==
  ForeignKeys /\ \E k \in DOMAIN rels :
                    rels[k].from_entity = id \/ rels[k].to_entity = id

\* memoryDelete: the table after DELETE FROM entities WHERE id = ?
memoryDelete(ents, id) == [x \in DOMAIN ents \ {id} |-> ents[x]]

\* INSERT INTO relations is rejected when an endpoint is no entity
memoryRelateRejected(ents, fromId, toId) ==
  ForeignKeys /\ (fromId \notin DOMAIN ents \/ toId \notin DOMAIN ents)

\* memoryRelate: the table after INSERT INTO relations
memoryRelate(rels, id, fromId, toId, relationType, metadata, ts) ==
  LET md == IF metadata = Undefined THEN EmptyObj ELSE metadata
      row == [from_entity |-> fromId, to_entity |-> toId,
              relation_type |-> relationType,
              metadata |-> JSONstringify(md), created_at |-> ts]
  IN [x \in DOMAIN rels \cup {id} |-> IF x = id THEN row ELSE rels[x]]

\* the characters of the strings that occur as names, contents and ids
\* (lower case throughout: LIKE ignores the case of ASCII letters)
Chars(s) ==
  CASE s = "n1" -> <<"n", "1">>
    [] s = "n2" -> <<"n", "2">>
    [] s = "c1" -> <<"c", "1">>
    [] s = "c2" -> <<"c", "2">>
    [] s = "u1" -> <<"u", "1">>
    [] s = "u2" -> <<"u", "2">>
    [] s = "u3" -> <<"u", "3">>
    [] s = "u4" -> <<"u", "4">>
    [] s = "u5" -> <<"u", "5">>
    [] s = "u6" -> <<"u", "6">>
    [] s = "u7" -> <<"u", "7">>
    [] s = "u8" -> <<"u", "8">>

\* the queries a caller searches for
Queries == {<<"n">>, <<"_", "2">>, <<"z">>}

\* x LIKE p of SQLite: % matches any run of characters, _ any one character
RECURSIVE Like(_, _)
Like(t, p) ==
  IF p = <<>> THEN t = <<>>
  ELSE IF Head(p) = "%"
  THEN Like(t, Tail(p)) \/ (t # <<>> /\ Like(Tail(t), p))
  ELSE /\ t # <<>>
       /\ Head(p) = "_" \/ Head(p) = Head(t)
       /\ Like(Tail(t), Tail(p))

\* LIMIT 50 of memorySearch, limit = 50 / args.limit || 50 of memoryList,
\* substring(0, 200) of the search results
SearchLimit == 50
DefaultLimit == 50
PreviewLen == 200

\* e.content?.substring(0, 200) + (e.content?.length > 200 ? '...' : '')
Preview(c) ==
  IF Len(c) > PreviewLen THEN SubSeq(c, 1, PreviewLen) \o <<"...">> ELSE c

\* the rows ids without an ORDER BY clause: every order of the rows
OrderByNothing(ents, ids) ==
  {s \in [1..Cardinality(ids) -> ids] :
     \A i, j \in DOMAIN s : i # j => s[i] # s[j]}

\* ORDER BY updated_at DESC over the rows ids: every order of the rows in
\* which updated_at never increases (SQL fixes no order among equal keys)
OrderByUpdatedDesc(ents, ids) ==
  {s \in [1..Cardinality(ids) -> ids] :
     /\ \A i, j \in DOMAIN s : i # j => s[i] # s[j]
     /\ \A i, j \in DOMAIN s :
          i < j => ents[s[i]].updated_at >= ents[s[j]].updated_at}

\* LIMIT n: the first n rows; a negative n is no limit
Limit(s, n) ==
  IF n < 0 \/ n >= Len(s) THEN s ELSE SubSeq(s, 1, n)

\* memorySearch: the rows of the query; type is Absent when not supplied
memorySearchRows(ents, query, type) ==
  LET p == <<"%">> \o query \o <<"%">> IN
  {x \in DOMAIN ents :
     /\ Like(Chars(ents[x].name), p) \/ Like(Chars(ents[x].content), p)
     /\ type # Absent => ents[x].type = type}

\* memorySearch: every result the call can return
memorySearch(ents, query, type) ==
  {[count |-> Len(l),
    entities |-> [i \in DOMAIN l |->
                    [id |-> l[i], name |-> ents[l[i]].name,
                     type |-> ents[l[i]].type,
                     content |-> Preview(Chars(ents[l[i]].content)),
                     updated_at |-> ents[l[i]].updated_at]]] :
   l \in {Limit(s, SearchLimit) :
            s \in OrderByUpdatedDesc(ents, memorySearchRows(ents, query, type))}}

\* memoryList: every result the call can return
memoryList(ents, type, limit) ==
  {[count |-> Len(l),
    entities |-> [i \in DOMAIN l |->
                    [id |-> l[i], name |-> ents[l[i]].name,
                     type |-> ents[l[i]].type,
                     updated_at |-> ents[l[i]].updated_at]]] :
   l \in {Limit(s, limit) :
            s \in OrderByUpdatedDesc(ents,
                    {x \in DOMAIN ents : type # Absent => ents[x].type = type})}}

\* a column of a LEFT JOIN that found no row
SqlNull == "<null>"

\* memoryGetRelations that joins on the from side only
memoryGetRelationsFromOnly(ents, rels, entityId) ==
  LET rows == {k \in DOMAIN rels : rels[k].from_entity = entityId}
      col(id, c) == IF id \in DOMAIN ents THEN ents[id][c] ELSE SqlNull
  IN [count |-> Cardinality(rows),
      relations |->
        {[id |-> k, from_entity |-> rels[k].from_entity,
          to_entity |-> rels[k].to_entity,
          relation_type |-> rels[k].relation_type,
          metadata |-> rels[k].metadata, created_at |-> rels[k].created_at,
          from_name |-> col(rels[k].from_entity, "name"),
          from_type |-> col(rels[k].from_entity, "type"),
          to_name |-> col(rels[k].to_entity, "name"),
          to_type |-> col(rels[k].to_entity, "type")] : k \in rows}]

\* memoryGetRelations: SELECT r.*, e1.name, e1.type, e2.name, e2.type FROM
\* relations r LEFT JOIN entities e1 ... LEFT JOIN entities e2 ... WHERE
\* r.from_entity = ? OR r.to_entity = ?.  entities.id is the primary key, so
\* each join adds at most one row per relation: one result row per relation
\* row, in no fixed order.
memoryGetRelations(ents, rels, entityId) ==
  LET rows == {k \in DOMAIN rels :
                 rels[k].from_entity = entityId \/ rels[k].to_entity = entityId}
      col(id, c) == IF id \in DOMAIN ents THEN ents[id][c] ELSE SqlNull
  IN [count |-> Cardinality(rows),
      relations |->
        {[id |-> k, from_entity |-> rels[k].from_entity,
          to_entity |-> rels[k].to_entity,
          relation_type |-> rels[k].relation_type,
          metadata |-> rels[k].metadata, created_at |-> rels[k].created_at,
          from_name |-> col(rels[k].from_entity, "name"),
          from_type |-> col(rels[k].from_entity, "type"),
          to_name |-> col(rels[k].to_entity, "name"),
          to_type |-> col(rels[k].to_entity, "type")] : k \in rows}]

\* ---------------------------------------------------------- session map
Slots == 1..MaxReq

\* the frame of one app.post('/mcp') invocation: let sessionId; let
\* transport; let server; and the response header it has set
IdleReq == [pc |-> "idle", hdr |-> NoHeader, method |-> "initialize",
            sessionId |-> NoHeader, transport |-> NoObj, server |-> NoObj,
            created |-> FALSE, respHdr |-> NoHeader]

NoRes == [none |-> TRUE]

\* ------------------------------------------------------ filesystem tools
\* A path or a text is a sequence of tokens: "/" is the separator, "." and
\* ".." are the special names, every other token is a run of characters
\* without "/".  <<"workspace", "2">> is the name workspace2.
WORKSPACE_DIR == <<"/", "tmp", "/", "workspace">>

\* s.startsWith(prefix)
startsWith(s, prefix) ==
  Len(s) >= Len(prefix) /\ SubSeq(s, 1, Len(prefix)) = prefix

\* the names between the separators of a path
RECURSIVE Split(_, _, _)
Split(p, cur, acc) ==
  IF p = <<>> THEN (IF cur = <<>> THEN acc ELSE Append(acc, cur))
  ELSE IF Head(p) = "/"
  THEN Split(Tail(p), <<>>, IF cur = <<>> THEN acc ELSE Append(acc, cur))
  ELSE Split(Tail(p), Append(cur, Head(p)), acc)

\* the names after "." and ".." have been resolved ("/.." is "/")
RECURSIVE Normalize(_, _)
Normalize(segs, out) ==
  IF segs = <<>> THEN out
  ELSE IF Head(segs) = <<".">> THEN Normalize(Tail(segs), out)
  ELSE IF Head(segs) = <<"..">>
  THEN Normalize(Tail(segs),
                 IF out = <<>> THEN out ELSE SubSeq(out, 1, Len(out) - 1))
  ELSE Normalize(Tail(segs), Append(out, Head(segs)))

\* the absolute path made of names
RECURSIVE Join(_)
Join(segs) ==
  IF segs = <<>> THEN <<>> ELSE <<"/">> \o Head(segs) \o Join(Tail(segs))

\* path.resolve(base, p) for an absolute base
pathResolve(base, p) ==
  LET full == IF p # <<>> /\ Head(p) = "/" THEN p ELSE base \o <<"/">> \o p
      segs == Normalize(Split(full, <<>>, <<>>), <<>>)
  IN IF segs = <<>> THEN <<"/">> ELSE Join(segs)

\* path.dirname of an absolute, resolved path
dirname(p) ==
  LET segs == Split(p, <<>>, <<>>)
  IN IF Len(segs) <= 1 THEN <<"/">> ELSE Join(SubSeq(segs, 1, Len(segs) - 1))

\* resolvePath: ok is FALSE when it throws 'Access denied: Path is outside
\* workspace', path is the value it returns otherwise
resolvePath(filePath) ==
  LET resolved == pathResolve(WORKSPACE_DIR, filePath)
  IN [ok |-> startsWith(resolved, WORKSPACE_DIR), path |-> resolved]

\* p and the directories above it, the root excluded: what mkdir(p,
\* {recursive: true}) makes sure exist
Upward(p) ==
  LET segs == Split(p, <<>>, <<>>)
  IN {Join(SubSeq(segs, 1, n)) : n \in 1..Len(segs)}

\* the path arguments the callers pass
PathArgs == {<<"f">>,
             <<".">>,
             <<"..", "/", "f">>,
             <<"/", "etc", "/", "f">>,
             <<"..", "/", "workspace", "2", "/", "f">>}

\* the path arguments of the fs_edit_file calls
EditPaths == {<<"f">>, <<"..", "/", "f">>}

\* the text written by fs_write_file, and the (old_text, new_text) pairs of
\* fs_edit_file
FileText == <<"a", "b">>
EditArgs == {<<"a", "x">>, <<"b", "y">>, <<"z", "x">>}

\* content.includes(oldText), for a text of one token
includes(content, oldText) == \E i \in DOMAIN content : content[i] = oldText

\* content.replace(oldText, newText): the first occurrence is replaced
replace(content, oldText, newText) ==
  IF ~includes(content, oldText) THEN content
  ELSE LET i == CHOOSE k \in DOMAIN content :
                  /\ content[k] = oldText
                  /\ \A j \in DOMAIN content : content[j] = oldText => k <= j
       IN [content EXCEPT ![i] = newText]

MaxEdit == 2      \* fs_edit_file calls that may be in flight at once
Edits == 1..MaxEdit

\* the frame of one editFile call
IdleEdit == [pc |-> "idle"]

\* the workspace right after fs.mkdir(WORKSPACE_DIR, {recursive: true}) on
\* an empty /tmp: no file, no edit in flight
FsStart == [files |-> <<>>, dirs |-> Upward(WORKSPACE_DIR),
            ed |-> [e \in Edits |-> IdleEdit],
            applied |-> {}, last |-> [kind |-> "none"]]

\* the result of an fs_* tool: the path it was called with, the resolved
\* path on which a file operation was performed (<<>> when none was), the
\* error thrown (<<>> when none), the value returned
FsResult(tool, arg, touched, err, val) ==
  [kind |-> "fs", tool |-> tool, arg |-> arg, touched |-> touched,
   isError |-> err # <<>>, err |-> err, val |-> val]

AccessDenied == <<"Access denied: Path is outside workspace">>

\* the entries of applied that an overwrite or removal of path makes void
Forget(applied, path) == {a \in applied : a.path # path}

\* case 'fs_write_file': writeFile (mkdir of the directory, then the write)
FsWriteFile(arg) ==
  LET rp == resolvePath(arg) IN
  /\ IF ~rp.ok
     THEN fs' = [fs EXCEPT !.last = FsResult("fs_write_file", arg, <<>>,
                                              AccessDenied, NoRes)]
     ELSE IF rp.path \in fs.dirs
     THEN fs' = [fs EXCEPT !.dirs = @ \cup Upward(dirname(rp.path)),
                           !.last = FsResult("fs_write_file", arg, rp.path,
                                             <<"EISDIR">>, NoRes)]
     ELSE fs' = [fs EXCEPT
                   !.dirs = @ \cup Upward(dirname(rp.path)),
                   !.files = [x \in DOMAIN @ \cup {rp.path} |->
                                IF x = rp.path THEN FileText ELSE @[x]],
                   !.applied = Forget(@, rp.path),
                   !.last = FsResult("fs_write_file", arg, rp.path, <<>>,
                                     [success |-> TRUE,
                                      size |-> Len(FileText)])]
  /\ UNCHANGED <<sessions, uuids, objs, tinit, topts, req, entities,
                 relations, now, resp, origin, deleted, dropped, sse>>

\* case 'fs_read_file': readFile
FsReadFile(arg) ==
  LET rp == resolvePath(arg) IN
  /\ IF ~rp.ok
     THEN fs' = [fs EXCEPT !.last = FsResult("fs_read_file", arg, <<>>,
                                              AccessDenied, NoRes)]
     ELSE IF rp.path \notin DOMAIN fs.files
     THEN fs' = [fs EXCEPT !.last = FsResult("fs_read_file", arg, rp.path,
                                              <<"ENOENT">>, NoRes)]
     ELSE fs' = [fs EXCEPT !.last = FsResult("fs_read_file", arg, rp.path,
                                              <<>>,
                                              [content |-> fs.files[rp.path]])]
  /\ UNCHANGED <<sessions, uuids, objs, tinit, topts, req, entities,
                 relations, now, resp, origin, deleted, dropped, sse>>

\* case 'fs_delete_file': deleteFile (fs.unlink)
FsDeleteFile(arg) ==
  LET rp == resolvePath(arg) IN
  /\ IF ~rp.ok
     THEN fs' = [fs EXCEPT !.last = FsResult("fs_delete_file", arg, <<>>,
                                              AccessDenied, NoRes)]
     ELSE IF rp.path \notin DOMAIN fs.files
     THEN fs' = [fs EXCEPT !.last = FsResult("fs_delete_file", arg, rp.path,
                                              <<"ENOENT">>, NoRes)]
     ELSE fs' = [fs EXCEPT
                   !.files = [x \in DOMAIN @ \ {rp.path} |-> @[x]],
                   !.applied = Forget(@, rp.path),
                   !.last = FsResult("fs_delete_file", arg, rp.path, <<>>,
                                     [success |-> TRUE])]
  /\ UNCHANGED <<sessions, uuids, objs, tinit, topts, req, entities,
                 relations, now, resp, origin, deleted, dropped, sse>>

\* case 'fs_create_directory': createDirectory (fs.mkdir, recursive)
FsCreateDirectory(arg) ==
  LET rp == resolvePath(arg) IN
  /\ IF ~rp.ok
     THEN fs' = [fs EXCEPT !.last = FsResult("fs_create_directory", arg, <<>>,
                                              AccessDenied, NoRes)]
     ELSE IF rp.path \in DOMAIN fs.files
     THEN fs' = [fs EXCEPT !.last = FsResult("fs_create_directory", arg,
                                              rp.path, <<"EEXIST">>, NoRes)]
     ELSE fs' = [fs EXCEPT
                   !.dirs = @ \cup Upward(rp.path),
                   !.last = FsResult("fs_create_directory", arg, rp.path,
                                     <<>>, [success |-> TRUE])]
  /\ UNCHANGED <<sessions, uuids, objs, tinit, topts, req, entities,
                 relations, now, resp, origin, deleted, dropped, sse>>

\* case 'fs_list_directory' and case 'fs_directory_tree': listDirectory /
\* getDirectoryTree (fs.readdir of the path; the tree also of what is
\* below it): the files and directories below the path
FsReadDirectory(tool, arg) ==
  LET rp == resolvePath(arg) IN
  /\ IF ~rp.ok
     THEN fs' = [fs EXCEPT !.last = FsResult(tool, arg, <<>>,
                                              AccessDenied, NoRes)]
     ELSE IF rp.path \notin fs.dirs
     THEN fs' = [fs EXCEPT !.last = FsResult(tool, arg, rp.path,
                                              <<"ENOENT">>, NoRes)]
     ELSE fs' = [fs EXCEPT
                   !.last = FsResult(tool, arg, rp.path, <<>>,
                     [items |-> {x \in DOMAIN fs.files \cup fs.dirs :
                                   /\ x # rp.path
                                   /\ IF tool = "fs_list_directory"
                                      THEN dirname(x) = rp.path
                                      ELSE rp.path \in Upward(x)}])]
  /\ UNCHANGED <<sessions, uuids, objs, tinit, topts, req, entities,
                 relations, now, resp, origin, deleted, dropped, sse>>

\* case 'fs_edit_file': editFile from resolvePath to the end of await
\* fs.readFile, the includes test and the replace; the write is issued
EditRead(e, arg, old, new) ==
  LET rp == resolvePath(arg) IN
  /\ fs.ed[e].pc = "idle"
  /\ \A q \in Edits : q < e => fs.ed[q].pc # "idle"
  /\ IF ~rp.ok
     THEN fs' = [fs EXCEPT !.last = FsResult("fs_edit_file", arg, <<>>,
                                              AccessDenied, NoRes)]
     ELSE IF rp.path \notin DOMAIN fs.files
     THEN fs' = [fs EXCEPT !.last = FsResult("fs_edit_file", arg, rp.path,
                                              <<"ENOENT">>, NoRes)]
     ELSE IF ~includes(fs.files[rp.path], old)
     THEN fs' = [fs EXCEPT !.last = FsResult("fs_edit_file", arg, rp.path,
                                              <<"Old text not found in file">>,
                                              NoRes)]
     ELSE fs' = [fs EXCEPT
                   !.ed[e] = [pc |-> "writing", arg |-> arg, fullPath |-> rp.path,
                              old |-> old, new |-> new,
                              content |-> replace(fs.files[rp.path], old, new)]]
  /\ UNCHANGED <<sessions, uuids, objs, tinit, topts, req, entities,
                 relations, now, resp, origin, deleted, dropped, sse>>

\* editFile from await fs.writeFile(fullPath, content) to its return
EditWrite(e) ==
  LET f == fs.ed[e] IN
  /\ f.pc = "writing"
  /\ fs' = [fs EXCEPT
              !.ed[e] = IdleEdit,
              !.files = [x \in DOMAIN @ \cup {f.fullPath} |->
                           IF x = f.fullPath THEN f.content ELSE @[x]],
              !.applied = @ \cup {[path |-> f.fullPath, old |-> f.old,
                                    new |-> f.new]},
              !.last = FsResult("fs_edit_file", f.arg, f.fullPath, <<>>,
                                [success |-> TRUE])]
  /\ UNCHANGED <<sessions, uuids, objs, tinit, topts, req, entities,
                 relations, now, resp, origin, deleted, dropped, sse>>

\* ------------------------------------------- the SSE variant (part_001)
MaxSse == 3       \* GET /sse connections made in all

\* const transports = new Map(): the entries in insertion order, which is
\* the order of for (... of transports).  An entry is the n-th connection:
\* its key is the n-th Math.random() string, its transport the n-th
\* SSEServerTransport, whose own session id the client puts in the
\* sessionId parameter of POST /messages.
SseStart == [transports |-> <<>>, made |-> 0, last |-> [kind |-> "none"]]

\* transports.delete(key)
SseDelete(m, key) == SelectSeq(m, LAMBDA n : n # key)

\* app.get('/sse'): transports.set(sessionId, { transport, server }),
\* res.on('close', ...), server.connect(transport), which starts the
\* transport on res before the handler first yields
SseGet ==
  /\ sse.made < MaxSse
  /\ sse' = [sse EXCEPT !.made = @ + 1,
                        !.transports = Append(@, sse.made + 1)]
  /\ UNCHANGED <<sessions, uuids, objs, tinit, topts, req, entities,
                 relations, now, resp, origin, deleted, dropped, fs>>

\* res.on('close', () => { transports.delete(sessionId) })
SseClose(n) ==
  /\ \E i \in DOMAIN sse.transports : sse.transports[i] = n
  /\ sse' = [sse EXCEPT !.transports = SseDelete(@, n)]
  /\ UNCHANGED <<sessions, uuids, objs, tinit, topts, req, entities,
                 relations, now, resp, origin, deleted, dropped, fs>>

\* app.post('/messages') for a request that addresses the session of
\* connection addr (0: no sessionId parameter).  The loop hands the request
\* to the first transport of the map; handlePostMessage of a started
\* transport answers it itself, 202 when it could read and parse the body
\* and 400 when not, and does not throw, so the loop returns there.  by is
\* the connection whose transport answered (0: none).
PostMessages(addr, readable) ==
  /\ IF sse.transports = <<>>
     THEN sse' = [sse EXCEPT !.last = [kind |-> "messages", addr |-> addr,
                                       status |-> 404, by |-> 0]]
     ELSE sse' = [sse EXCEPT !.last = [kind |-> "messages", addr |-> addr,
                                       status |-> IF readable THEN 202
                                                  ELSE 400,
                                       by |-> Head(sse.transports)]]
  /\ UNCHANGED <<sessions, uuids, objs, tinit, topts, req, entities,
                 relations, now, resp, origin, deleted, dropped, fs>>

Init ==
  /\ sessions = <<>>
  /\ uuids = 0
  /\ objs = 0
  /\ tinit = {}
  /\ topts = <<>>
  /\ req = [r \in Slots |-> IdleReq]
  /\ entities = <<>>
  /\ relations = <<>>
  /\ now = 0
  /\ resp = [kind |-> "none"]
  /\ origin = <<>>
  /\ deleted = {}
  /\ dropped = {}
  /\ fs = FsStart
  /\ sse = SseStart

\* sessions.set that makes every entry share the value just set
MapSetShared(m, id, v) == [x \in DOMAIN m \cup {id} |-> v]

\* sessions.set(id, v)
MapSet(m, id, v) == [x \in DOMAIN m \cup {id} |-> IF x = id THEN v ELSE m[x]]

\* sessions.delete that removes nothing
MapDeleteNothing(m, id) == m

\* sessions.delete(id)
MapDelete(m, id) == [x \in DOMAIN m \ {id} |-> m[x]]

\* createMCPServer() / new StreamableHTTPServerTransport(...): the n-th
\* object constructed
createMCPServer(n) == n

\* sessionId = sessionId || randomUUID(): the client's id is kept
NewSessionIdKeepsHeader(hdr, n) ==
  IF hdr # NoHeader THEN hdr ELSE randomUUID(n)

\* the same, for a request that carries an id the server never issued
NewSessionIdKeepsBogus(hdr, n) ==
  IF hdr = Bogus THEN hdr ELSE randomUUID(n)

\* sessionId = randomUUID() unless the request names a deleted session, which
\* is revived under its old id
NewSessionIdRevives(hdr, n) ==
  IF hdr \in deleted THEN hdr ELSE randomUUID(n)

\* sessionId = randomUUID() of the else branch: the header of the request
\* plays no part
NewSessionId(hdr, n) == randomUUID(n)

\* the frame a new invocation takes: the frames are interchangeable, so the
\* lowest free one
FreeSlot(r) == req[r].pc = "idle" /\ \A q \in Slots : q < r => req[q].pc # "idle"

\* the values a client can put in the Mcp-Session-Id header: none, one the
\* server never issued, or one it received in a response header
Headers == {NoHeader, Bogus} \cup DOMAIN origin

\* the response of a POST /mcp that the transport answers without calling
\* a tool handler, or that ends in the catch block
PostResponse(rq, status) ==
  [kind |-> "post", hdr |-> rq.hdr, method |-> rq.method,
   sessionId |-> rq.sessionId, transport |-> rq.transport,
   server |-> rq.server, created |-> rq.created, status |-> status,
   respHdr |-> rq.respHdr]

\* the transport's check of a request other than initialize, without the
\* test of its _initialized flag
validateSessionNoInitCheck(t, hdr, sid) ==
  IF hdr = NoHeader THEN 400
  ELSE IF hdr # sid THEN 404
  ELSE 200

\* the transport's check of a request other than initialize: 400 while the
\* transport is not initialized or when the request has no Mcp-Session-Id
\* header, 404 when the header is not the transport's session id, else the
\* request is accepted (200)
validateSession(t, hdr, sid) ==
  IF t \notin tinit \/ hdr = NoHeader THEN 400
  ELSE IF hdr # sid THEN 404
  ELSE 200

\* res.setHeader('Mcp-Session-Id', sessionId); await
\* transport.handleRequest(req, res, req.body), up to its first suspension.
\* rq is the handler's frame, sess the session map at that point.  The
\* transport answers an initialize request by running sessionIdGenerator and
\* onsessioninitialized (400 when already initialized), and any other request
\* on an uninitialized transport with 400; a tools/call request is handed to
\* the server, whose CallTool handler runs later.
handleRequest(r, rq, sess) ==
  LET t == rq.transport
      o == topts'[t]
      out == [rq EXCEPT !.respHdr = rq.sessionId]
  IN
  /\ IF rq.method = "initialize"
     THEN IF t \in tinit
          THEN /\ req' = [req EXCEPT ![r] = IdleReq]
               /\ resp' = PostResponse(out, 400)
               /\ sessions' = sess
               /\ tinit' = tinit
          ELSE /\ req' = [req EXCEPT ![r] = IdleReq]
               /\ resp' = PostResponse(out, 200)
               /\ sessions' = MapSet(sess, o.sessionId,
                                     [transport |-> t, server |-> o.server])
               /\ tinit' = tinit \cup {t}
     ELSE /\ tinit' = tinit
          /\ sessions' = sess
          /\ IF validateSession(t, rq.hdr, o.sessionId) # 200
             THEN /\ req' = [req EXCEPT ![r] = IdleReq]
                  /\ resp' = PostResponse(out,
                                validateSession(t, rq.hdr, o.sessionId))
             ELSE IF rq.method = "tools/list"
             THEN /\ req' = [req EXCEPT ![r] = IdleReq]
                  /\ resp' = PostResponse(out, 200)
             ELSE /\ req' = [req EXCEPT ![r] = [out EXCEPT !.pc = "dispatched"]]
                  /\ resp' = resp
  /\ origin' = [x \in DOMAIN origin \cup DOMAIN sessions' |->
                  IF x \in DOMAIN origin THEN origin[x] ELSE sessions'[x]]

\* app.post('/mcp'), from the start to the first await, for a request whose
\* header names a session of the map
PostExisting(r, hdr, method) ==
  /\ FreeSlot(r)
  /\ hdr # NoHeader /\ hdr \in DOMAIN sessions
  /\ topts' = topts
  /\ handleRequest(r, [IdleReq EXCEPT !.hdr = hdr, !.method = method,
                                      !.sessionId = hdr,
                                      !.transport = sessions[hdr].transport,
                                      !.server = sessions[hdr].server],
                   sessions)
  /\ UNCHANGED <<fs, sse, uuids, objs, entities, relations, now, deleted, dropped>>

\* app.post('/mcp'), from the start to await server.connect(transport), for
\* a request without a header or with one that names no session
PostNew(r, hdr, method) ==
  /\ FreeSlot(r)
  /\ ~(hdr # NoHeader /\ hdr \in DOMAIN sessions)
  /\ uuids < MaxUUID
  /\ objs < MaxObj
  /\ uuids' = uuids + 1
  /\ objs' = objs + 1
  /\ LET id == NewSessionId(hdr, uuids + 1)
         o == createMCPServer(objs + 1)
     IN /\ req' = [req EXCEPT ![r] = [IdleReq EXCEPT !.pc = "connecting",
                                        !.hdr = hdr, !.method = method,
                                        !.sessionId = id, !.transport = o,
                                        !.server = o, !.created = TRUE]]
        /\ topts' = MapSet(topts, o, [sessionId |-> id, server |-> o])
  /\ UNCHANGED <<fs, sse, sessions, tinit, entities, relations, now, resp, origin,
                 deleted, dropped>>

\* server.connect resolved, with a map that keeps the newest session only
ConnectOkEvicts(r) ==
  /\ req[r].pc = "connecting"
  /\ topts' = topts
  /\ handleRequest(r, req[r],
                   MapSet(<<>>, req[r].sessionId,
                          [transport |-> req[r].transport,
                           server |-> req[r].server]))
  /\ UNCHANGED <<fs, sse, uuids, objs, entities, relations, now, deleted,
                 dropped>>

\* server.connect resolved: sessions.set(sessionId, {transport, server}),
\* then the header and handleRequest
ConnectOk(r) ==
  /\ req[r].pc = "connecting"
  /\ topts' = topts
  /\ handleRequest(r, req[r],
                   MapSet(sessions, req[r].sessionId,
                          [transport |-> req[r].transport,
                           server |-> req[r].server]))
  /\ UNCHANGED <<fs, sse, uuids, objs, entities, relations, now, deleted, dropped>>

\* server.connect rejected after the session was put in the map
ConnectFailKeepsEntry(r) ==
  /\ req[r].pc = "connecting"
  /\ req' = [req EXCEPT ![r] = IdleReq]
  /\ resp' = PostResponse(req[r], 500)
  /\ sessions' = MapSet(sessions, req[r].sessionId,
                        [transport |-> req[r].transport,
                         server |-> req[r].server])
  /\ UNCHANGED <<fs, sse, uuids, objs, tinit, topts, entities, relations,
                 now, origin, deleted, dropped>>

\* server.connect rejected: catch, res.status(500).json(...)
ConnectFail(r) ==
  /\ req[r].pc = "connecting"
  /\ req' = [req EXCEPT ![r] = IdleReq]
  /\ resp' = PostResponse(req[r], 500)
  /\ UNCHANGED <<fs, sse, sessions, uuids, objs, tinit, topts, entities, relations,
                 now, origin, deleted, dropped>>

\* app.delete('/mcp') that also empties the store of the process
DeleteDropsStore(hdr) ==
  /\ IF hdr # NoHeader /\ hdr \in DOMAIN sessions
     THEN /\ sessions' = MapDelete(sessions, hdr)
          /\ resp' = [kind |-> "delete", id |-> hdr, status |-> 200]
          /\ deleted' = deleted \cup {hdr}
          /\ entities' = <<>>
          /\ relations' = <<>>
     ELSE /\ sessions' = sessions
          /\ resp' = [kind |-> "delete", id |-> hdr, status |-> 404]
          /\ deleted' = deleted
          /\ UNCHANGED <<entities, relations>>
  /\ UNCHANGED <<fs, sse, uuids, objs, tinit, topts, req, now, origin,
                 dropped>>

\* app.delete('/mcp') that also abandons the handlers of the session
DeleteCancelsCalls(hdr) ==
  /\ IF hdr # NoHeader /\ hdr \in DOMAIN sessions
     THEN /\ sessions' = MapDelete(sessions, hdr)
          /\ resp' = [kind |-> "delete", id |-> hdr, status |-> 200]
          /\ deleted' = deleted \cup {hdr}
          /\ req' = [r \in Slots |->
                       IF req[r].sessionId = hdr THEN IdleReq ELSE req[r]]
     ELSE /\ sessions' = sessions
          /\ resp' = [kind |-> "delete", id |-> hdr, status |-> 404]
          /\ deleted' = deleted
          /\ req' = req
  /\ UNCHANGED <<fs, sse, uuids, objs, tinit, topts, entities, relations,
                 now, origin, dropped>>

\* app.delete('/mcp')
Delete(hdr) ==
  /\ IF hdr # NoHeader /\ hdr \in DOMAIN sessions
     THEN /\ sessions' = MapDelete(sessions, hdr)
          /\ resp' = [kind |-> "delete", id |-> hdr,
                      status |-> 200]
          /\ deleted' = deleted \cup {hdr}
     ELSE /\ sessions' = sessions
          /\ resp' = [kind |-> "delete", id |-> hdr,
                      status |-> 404]
          /\ deleted' = deleted
  /\ UNCHANGED <<fs, sse, uuids, objs, tinit, topts, req, entities, relations, now,
                 origin, dropped>>

\* the client of a session goes away; index.js registers no close handler
\* on the request, the response or the transport
ConnDrop(id) ==
  /\ id \in DOMAIN sessions
  /\ id \notin dropped
  /\ dropped' = dropped \cup {id}
  /\ UNCHANGED <<fs, sse, sessions, uuids, objs, tinit, topts, req, entities,
                 relations, now, resp, origin, deleted>>

\* a second passes
Tick ==
  /\ now < MaxTime
  /\ now' = now + 1
  /\ UNCHANGED <<fs, sse, sessions, uuids, objs, tinit, topts, req, entities,
                 relations, resp, origin, deleted, dropped>>

\* ------------------------------------------------- the CallTool handler
MemoryTools == {"memory_store", "memory_update", "memory_recall",
                "memory_search", "memory_list", "memory_delete",
                "memory_relate", "memory_get_relations"}
CollabTools == {"railway_deploy"}
Tools == MemoryTools \cup CollabTools
UnknownNames == {"no_such_tool"}

\* strings a caller can pass for an id: a plain name, or an id that a tool
\* result has shown
Strings == Names \cup DOMAIN entities \cup DOMAIN relations

\* the arguments the callers of a specification draw from: under Spec the
\* callers store one kind of entity, under StoreSpec they vary every field
Few == [names |-> Names \cup {Absent}, types |-> Types, contents |-> {"c1"},
        store_meta |-> {Undefined}, update_meta |-> {Undefined},
        faults |-> BOOLEAN, maxUUID |-> MaxUUID,
        queries |-> {<<"n">>}, filters |-> {Absent},
        limits |-> {[given |-> FALSE, n |-> 0]}]
Rich == [names |-> Names \cup DOMAIN entities, types |-> Types,
         contents |-> Contents,
         store_meta |-> {Undefined, Obj1}, update_meta |-> {Undefined, Obj1},
         faults |-> {FALSE}, maxUUID |-> MaxStoreUUID]

\* the callers of RelSpec build a graph: two names, two contents
GraphNames == {"n1", "n2"}
Graph == [names |-> GraphNames, types |-> Types, contents |-> Contents,
          store_meta |-> {Undefined}, faults |-> {FALSE},
          maxUUID |-> MaxRelUUID]

\* the callers of QuerySpec store entities of two types and query them
\* with and without a type, with every kind of limit
QueryTypes == {"t", "s"}
Limits == {[given |-> FALSE, n |-> 0], [given |-> TRUE, n |-> -1],
           [given |-> TRUE, n |-> 0], [given |-> TRUE, n |-> 1]}
Listing == [names |-> Names, types |-> QueryTypes, contents |-> Contents,
            store_meta |-> {Undefined}, update_meta |-> {Undefined},
            faults |-> {FALSE}, maxUUID |-> MaxStoreUUID,
            queries |-> Queries, filters |-> QueryTypes \cup {Absent},
            limits |-> Limits]

\* args.limit || 50
LimitOrDefault(lim) == IF ~lim.given \/ lim.n = 0 THEN DefaultLimit ELSE lim.n

\* args.metadata || {}
OrEmpty(md) == IF md = Undefined \/ md = Null THEN EmptyObj ELSE md

\* the catch block without isError: true
RespondNoFlag(r, call, err, res) ==
  /\ req' = [req EXCEPT ![r] = IdleReq]
  /\ resp' = [kind |-> "tool", status |-> 200,
              respHdr |-> req[r].respHdr, server |-> req[r].server,
              call |-> call, thrown |-> err, isError |-> FALSE,
              text |-> IF err # <<>> THEN <<"Error: ">> \o err ELSE <<>>,
              res |-> IF err # <<>> THEN NoRes ELSE res]

\* return { content: [...] } / catch (error) { return { content: [{text:
\* `Error: ${error.message}`}], isError: true } }: err is the message of the
\* error thrown inside the try block, <<>> when nothing was thrown.  The
\* transport sends the value as the result of a 200 response.
Respond(r, call, err, res) ==
  /\ req' = [req EXCEPT ![r] = IdleReq]
  /\ resp' = [kind |-> "tool", status |-> 200,
              respHdr |-> req[r].respHdr, server |-> req[r].server,
              call |-> call, thrown |-> err, isError |-> err # <<>>,
              text |-> IF err # <<>> THEN <<"Error: ">> \o err ELSE <<>>,
              res |-> IF err # <<>> THEN NoRes ELSE res]

\* what stmt.run / stmt.get throws when the database file is unavailable
IOError == <<"disk I/O error">>

\* a statement that fails half way and leaves what it had written
StatementFailedKeepsWrites(tbl, written) == written

\* the table after stmt.run has thrown: SQLite undoes what the statement
\* had written (tbl is the table before, written what the statement was
\* writing)
StatementFailed(tbl, written) == tbl

\* case 'memory_store'
RunMemoryStore(r, in) ==
  /\ req[r].pc = "dispatched"
  /\ uuids < in.maxUUID
  /\ uuids' = uuids + 1
  /\ \E name \in in.names, type \in in.types, content \in in.contents,
        md \in in.store_meta, fault \in in.faults :
       LET id == randomUUID(uuids + 1)
           call == [tool |-> "memory_store", name |-> name, type |-> type,
                    content |-> content, metadata |-> md]
       IN IF name = Absent
          THEN /\ Respond(r, call, <<"TypeError">>, NoRes)
               /\ UNCHANGED entities
          ELSE IF fault
          THEN /\ Respond(r, call, IOError, NoRes)
               /\ entities' = StatementFailed(entities,
                                 memoryStore(entities, id, name, type, content,
                                             OrEmpty(md), now))
          ELSE /\ entities' = memoryStore(entities, id, name, type, content,
                                          OrEmpty(md), now)
               /\ Respond(r, call, <<>>,
                          [id |-> id, name |-> name, type |-> type,
                           created |-> TRUE])
  /\ UNCHANGED <<fs, sse, sessions, objs, tinit, topts, relations, now, origin,
                 deleted, dropped>>

\* case 'memory_update'
RunMemoryUpdate(r, in) ==
  /\ req[r].pc = "dispatched"
  /\ \E id \in Strings, content \in in.contents, md \in in.update_meta,
        fault \in in.faults :
       LET call == [tool |-> "memory_update", id |-> id, content |-> content,
                    metadata |-> md]
       IN IF fault
          THEN /\ Respond(r, call, IOError, NoRes)
               /\ entities' = StatementFailed(entities,
                                 memoryUpdate(entities, id, content, md, now))
          ELSE /\ entities' = memoryUpdate(entities, id, content, md, now)
               /\ Respond(r, call, <<>>,
                          [id |-> id,
                           updated |-> memoryUpdateChanges(entities, id) > 0])
  /\ UNCHANGED <<fs, sse, sessions, uuids, objs, tinit, topts, relations, now, origin,
                 deleted, dropped>>

\* case 'memory_recall'
RunMemoryRecall(r, in) ==
  /\ req[r].pc = "dispatched"
  /\ \E x \in Strings, fault \in in.faults :
       LET call == [tool |-> "memory_recall", name_or_id |-> x]
       IN IF fault
          THEN Respond(r, call, IOError, NoRes)
          ELSE \E res \in memoryRecall(entities, x) : Respond(r, call, <<>>, res)
  /\ UNCHANGED <<fs, sse, sessions, uuids, objs, tinit, topts, entities, relations,
                 now, origin, deleted, dropped>>

\* case 'memory_delete'
RunMemoryDelete(r, in) ==
  /\ req[r].pc = "dispatched"
  /\ \E id \in Strings, fault \in in.faults :
       LET call == [tool |-> "memory_delete", id |-> id]
       IN IF fault
          THEN /\ Respond(r, call, IOError, NoRes)
               /\ entities' = StatementFailed(entities,
                                               memoryDelete(entities, id))
          ELSE IF memoryDeleteRejected(relations, id)
          THEN /\ Respond(r, call, <<"FOREIGN KEY constraint failed">>, NoRes)
               /\ entities' = StatementFailed(entities,
                                               memoryDelete(entities, id))
          ELSE /\ entities' = memoryDelete(entities, id)
               /\ Respond(r, call, <<>>, [deleted |-> id \in DOMAIN entities])
  /\ UNCHANGED <<fs, sse, sessions, uuids, objs, tinit, topts, relations, now, origin,
                 deleted, dropped>>

\* case 'memory_relate'
RunMemoryRelate(r, in) ==
  /\ req[r].pc = "dispatched"
  /\ uuids < in.maxUUID
  /\ uuids' = uuids + 1
  /\ \E fromId \in Strings, toId \in Strings, rt \in RelTypes,
        fault \in in.faults :
       LET id == randomUUID(uuids + 1)
           call == [tool |-> "memory_relate", from_id |-> fromId,
                    to_id |-> toId, relation_type |-> rt]
       IN IF fault
          THEN /\ Respond(r, call, IOError, NoRes)
               /\ relations' = StatementFailed(relations,
                                  memoryRelate(relations, id, fromId, toId, rt,
                                               OrEmpty(Undefined), now))
          ELSE IF memoryRelateRejected(entities, fromId, toId)
          THEN /\ Respond(r, call, <<"FOREIGN KEY constraint failed">>, NoRes)
               /\ relations' = StatementFailed(relations,
                                  memoryRelate(relations, id, fromId, toId, rt,
                                               OrEmpty(Undefined), now))
          ELSE /\ relations' = memoryRelate(relations, id, fromId, toId, rt,
                                            OrEmpty(Undefined), now)
               /\ Respond(r, call, <<>>, [id |-> id, created |-> TRUE])
  /\ UNCHANGED <<fs, sse, sessions, objs, tinit, topts, entities, now, origin,
                 deleted, dropped>>

\* case 'memory_search'
RunMemorySearch(r, in) ==
  /\ req[r].pc = "dispatched"
  /\ \E q \in in.queries, type \in in.filters, fault \in in.faults :
       LET call == [tool |-> "memory_search", query |-> q, type |-> type]
       IN IF fault
          THEN Respond(r, call, IOError, NoRes)
          ELSE \E res \in memorySearch(entities, q, type) :
                 Respond(r, call, <<>>, res)
  /\ UNCHANGED <<fs, sse, sessions, uuids, objs, tinit, topts, entities, relations,
                 now, origin, deleted, dropped>>

\* case 'memory_list'
RunMemoryList(r, in) ==
  /\ req[r].pc = "dispatched"
  /\ \E type \in in.filters, lim \in in.limits, fault \in in.faults :
       LET call == [tool |-> "memory_list", type |-> type, limit |-> lim]
       IN IF fault
          THEN Respond(r, call, IOError, NoRes)
          ELSE \E res \in memoryList(entities, type, LimitOrDefault(lim)) :
                 Respond(r, call, <<>>, res)
  /\ UNCHANGED <<fs, sse, sessions, uuids, objs, tinit, topts, entities, relations,
                 now, origin, deleted, dropped>>

\* case 'memory_get_relations'
RunMemoryGetRelations(r, in) ==
  /\ req[r].pc = "dispatched"
  /\ \E e \in Strings, fault \in in.faults :
       LET call == [tool |-> "memory_get_relations", entity_id |-> e]
       IN IF fault
          THEN Respond(r, call, IOError, NoRes)
          ELSE Respond(r, call, <<>>,
                       memoryGetRelations(entities, relations, e))
  /\ UNCHANGED <<fs, sse, sessions, uuids, objs, tinit, topts, entities, relations,
                 now, origin, deleted, dropped>>

\* the cases that await a collaborator (Railway, Supabase, filesystem): the
\* call returns a payload or throws the platform's message
RunCollaborator(r) ==
  /\ req[r].pc = "dispatched"
  /\ \E tool \in CollabTools, ok \in BOOLEAN :
       LET call == [tool |-> tool]
       IN IF ok
          THEN Respond(r, call, <<>>, [success |-> TRUE])
          ELSE Respond(r, call, <<"Railway API error: ", "rejected">>, NoRes)
  /\ UNCHANGED <<fs, sse, sessions, uuids, objs, tinit, topts, entities, relations,
                 now, origin, deleted, dropped>>

\* a request whose params carry no arguments object: args.<field> throws
RunNoArguments(r) ==
  /\ req[r].pc = "dispatched"
  /\ \E tool \in Tools :
       Respond(r, [tool |-> tool, noargs |-> TRUE],
               <<"Cannot read properties of undefined">>, NoRes)
  /\ UNCHANGED <<fs, sse, sessions, uuids, objs, tinit, topts, entities, relations,
                 now, origin, deleted, dropped>>

\* default: throw new Error('Unknown tool')
RunUnknownToolNoName(r) ==
  /\ req[r].pc = "dispatched"
  /\ \E name \in UnknownNames :
       Respond(r, [tool |-> name], <<"Unknown tool">>, NoRes)
  /\ UNCHANGED <<fs, sse, sessions, uuids, objs, tinit, topts, entities, relations,
                 now, origin, deleted, dropped>>

\* default: throw new Error(`Unknown tool: ${name}`)
RunUnknownTool(r) ==
  /\ req[r].pc = "dispatched"
  /\ \E name \in UnknownNames :
       Respond(r, [tool |-> name], <<"Unknown tool: ", name>>, NoRes)
  /\ UNCHANGED <<fs, sse, sessions, uuids, objs, tinit, topts, entities, relations,
                 now, origin, deleted, dropped>>

\* ------------------------------------------------------- specification
Next ==
  \/ \E r \in Slots, hdr \in Headers, m \in Methods : PostExisting(r, hdr, m)
  \/ \E r \in Slots, hdr \in Headers, m \in Methods : PostNew(r, hdr, m)
  \/ \E r \in Slots : ConnectOk(r)
  \/ \E r \in Slots : ConnectFail(r)
  \/ \E hdr \in Headers : Delete(hdr)
  \/ \E r \in Slots : RunMemoryStore(r, Few)
  \/ \E r \in Slots : RunMemoryUpdate(r, Few)
  \/ \E r \in Slots : RunMemoryRecall(r, Few)
  \/ \E r \in Slots : RunMemoryDelete(r, Few)
  \/ \E r \in Slots : RunMemoryRelate(r, Few)
  \/ \E r \in Slots : RunMemorySearch(r, Few)
  \/ \E r \in Slots : RunMemoryList(r, Few)
  \/ \E r \in Slots : RunMemoryGetRelations(r, Few)
  \/ \E r \in Slots : RunCollaborator(r)
  \/ \E r \in Slots : RunNoArguments(r)
  \/ \E r \in Slots : RunUnknownTool(r)

\* the whole server
Spec == Init /\ [][Next]_vars

\* the state after one client has completed the initialize handshake
StoreInit ==
  /\ sessions = [x \in {randomUUID(1)} |->
                   [transport |-> createMCPServer(1),
                    server |-> createMCPServer(1)]]
  /\ uuids = 1
  /\ objs = 1
  /\ tinit = {createMCPServer(1)}
  /\ topts = [x \in {createMCPServer(1)} |->
                [sessionId |-> randomUUID(1), server |-> createMCPServer(1)]]
  /\ req = [r \in Slots |-> IdleReq]
  /\ entities = <<>>
  /\ relations = <<>>
  /\ now = 0
  /\ resp = [kind |-> "post", hdr |-> NoHeader,
             method |-> "initialize", sessionId |-> randomUUID(1),
             transport |-> createMCPServer(1), server |-> createMCPServer(1),
             created |-> TRUE, status |-> 200, respHdr |-> randomUUID(1)]
  /\ origin = sessions
  /\ deleted = {}
  /\ dropped = {}
  /\ fs = FsStart
  /\ sse = SseStart

\* that client calling the memory tools one after the other
StoreNext ==
  \/ \E hdr \in DOMAIN sessions : PostExisting(1, hdr, "tools/call")
  \/ Tick
  \/ RunMemoryStore(1, Rich)
  \/ RunMemoryUpdate(1, Rich)
  \/ RunMemoryRecall(1, Rich)
  \/ RunMemoryDelete(1, Rich)
  \/ RunMemoryRelate(1, Rich)

\* the entity/relation store under one session
StoreSpec == StoreInit /\ [][StoreNext]_vars

\* that client building a graph of entities and relations and reading it
RelNext ==
  \/ \E hdr \in DOMAIN sessions : PostExisting(1, hdr, "tools/call")
  \/ RunMemoryStore(1, Graph)
  \/ RunMemoryRelate(1, Graph)
  \/ RunMemoryDelete(1, Graph)
  \/ RunMemoryGetRelations(1, Graph)

\* the relations of the store under one session
RelSpec == StoreInit /\ [][RelNext]_vars

\* that client storing, updating and querying entities as seconds pass
QueryNext ==
  \/ \E hdr \in DOMAIN sessions : PostExisting(1, hdr, "tools/call")
  \/ Tick
  \/ RunMemoryStore(1, Listing)
  \/ RunMemoryUpdate(1, Listing)
  \/ RunMemorySearch(1, Listing)
  \/ RunMemoryList(1, Listing)

\* the queries of the store under one session
QuerySpec == StoreInit /\ [][QueryNext]_vars

\* the server with clients whose connections drop
DropNext ==
  \/ Next
  \/ \E id \in DOMAIN sessions : ConnDrop(id)

\* a suspended handler is resumed: server.connect settles, and a dispatched
\* CallTool handler of the memory group runs to its return
Resume(r) ==
  \/ ConnectOk(r)
  \/ ConnectFail(r)
  \/ RunMemoryStore(r, Few)
  \/ RunMemoryUpdate(r, Few)
  \/ RunMemoryRecall(r, Few)
  \/ RunMemoryDelete(r, Few)
  \/ RunMemoryRelate(r, Few)
  \/ RunMemorySearch(r, Few)
  \/ RunMemoryList(r, Few)
  \/ RunMemoryGetRelations(r, Few)
  \/ RunCollaborator(r)
  \/ RunNoArguments(r)
  \/ RunUnknownTool(r)

FairSpec == Init /\ [][DropNext]_vars /\ \A r \in Slots : WF_vars(Resume(r))

\* the frame of a CallTool handler whose await on a collaborator never
\* settles; minted is the number of randomUUID() calls made before it
HungReq(rq, n) ==
  [pc |-> "hung", hdr |-> rq.hdr, method |-> rq.method,
   sessionId |-> rq.sessionId, transport |-> rq.transport,
   server |-> rq.server, created |-> rq.created, respHdr |-> rq.respHdr,
   minted |-> n]

\* a dispatched CallTool handler awaits a collaborator (fetch to Railway or
\* Supabase) that never answers: the handler stays suspended for good.  One
\* handler hangs at a time.
Hang(r) ==
  /\ req[r].pc = "dispatched"
  /\ \A q \in Slots : req[q].pc # "hung"
  /\ req' = [req EXCEPT ![r] = HungReq(req[r], uuids)]
  /\ UNCHANGED <<fs, sse, sessions, uuids, objs, tinit, topts, entities,
                 relations, now, resp, origin, deleted, dropped>>

\* a suspended handler is resumed only while no handler hangs
SettleBlockedByHung(r) ==
  /\ \A q \in Slots : req[q].pc # "hung"
  /\ \/ ConnectOk(r)
     \/ ConnectFail(r)
     \/ RunMemoryStore(r, Few)
     \/ RunMemoryRecall(r, Few)
     \/ RunCollaborator(r)

\* a suspended handler is resumed: server.connect settles, and a dispatched
\* CallTool handler (memory_store, memory_recall or a collaborator's tool)
\* runs to its return
Settle(r) ==
  \/ ConnectOk(r)
  \/ ConnectFail(r)
  \/ RunMemoryStore(r, Few)
  \/ RunMemoryRecall(r, Few)
  \/ RunCollaborator(r)

\* the server with a tool handler that may hang
HangNext ==
  \/ \E r \in Slots, hdr \in Headers, m \in Methods : PostExisting(r, hdr, m)
  \/ \E r \in Slots, hdr \in Headers, m \in Methods : PostNew(r, hdr, m)
  \/ \E hdr \in Headers : Delete(hdr)
  \/ \E r \in Slots : Settle(r)
  \/ \E r \in Slots : Hang(r)

\* the event loop resumes every handler whose await has settled
HangSpec ==
  Init /\ [][HangNext]_vars /\ \A r \in Slots : WF_vars(Settle(r))

\* the server whose handlers all settle: sessions are created and deleted
\* while tool calls are in flight
SettleNext ==
  \/ \E r \in Slots, hdr \in Headers, m \in Methods : PostExisting(r, hdr, m)
  \/ \E r \in Slots, hdr \in Headers, m \in Methods : PostNew(r, hdr, m)
  \/ \E hdr \in Headers : Delete(hdr)
  \/ \E r \in Slots : Settle(r)

SettleSpec ==
  Init /\ [][SettleNext]_vars /\ \A r \in Slots : WF_vars(Settle(r))

\* the SSE variant: clients connect, post messages and disconnect
SseNext ==
  \/ SseGet
  \/ \E n \in 1..MaxSse : SseClose(n)
  \/ \E addr \in 0..MaxSse, readable \in BOOLEAN : PostMessages(addr, readable)

SseSpec == Init /\ [][SseNext]_vars

\* the fs_* tools called on the workspace, two fs_edit_file calls at most
\* suspended between their read and their write
FsNext ==
  \/ \E arg \in PathArgs : FsWriteFile(arg)
  \/ \E arg \in PathArgs : FsReadFile(arg)
  \/ \E arg \in PathArgs : FsDeleteFile(arg)
  \/ \E arg \in PathArgs : FsCreateDirectory(arg)
  \/ \E arg \in PathArgs,
        tool \in {"fs_list_directory", "fs_directory_tree"} :
       FsReadDirectory(tool, arg)
  \/ \E e \in Edits, arg \in EditPaths, a \in EditArgs :
       EditRead(e, arg, a[1], a[2])
  \/ \E e \in Edits : EditWrite(e)

\* the filesystem tools
FsSpec == StoreInit /\ [][FsNext]_vars

\* ------------------------------------------------------------- claims
Servers(m) == {m[x].server : x \in DOMAIN m}
Transports(m) == {m[x].transport : x \in DOMAIN m}
Pair(q) == [transport |-> q.transport, server |-> q.server]
Creating == {r \in Slots : req[r].pc = "connecting"}
ToolStep(r) == req[r].pc = "dispatched" /\ req'[r].pc = "idle"

\* C1: whatever the interleaving of POST /mcp handlers that create a session,
\* the ids they were given differ from each other and from every id already
\* recorded, and no server or transport is recorded under two ids.
C1_UniqueSessionIds ==
  /\ \A i \in DOMAIN origin, j \in DOMAIN origin :
       i # j => /\ origin[i].server # origin[j].server
                /\ origin[i].transport # origin[j].transport
  /\ \A i \in DOMAIN sessions, j \in DOMAIN sessions :
       i # j => /\ sessions[i].server # sessions[j].server
                /\ sessions[i].transport # sessions[j].transport
  /\ \A r \in Creating :
       /\ req[r].sessionId \notin DOMAIN origin
       /\ req[r].server \notin Servers(origin)
       /\ req[r].transport \notin Transports(origin)
       /\ \A q \in Creating \ {r} :
            /\ req[q].sessionId # req[r].sessionId
            /\ req[q].server # req[r].server
            /\ req[q].transport # req[r].transport

\* two requests without a header interleaved at await server.connect: the
\* one that started second has been recorded, the first is still waiting
C1_Witness ==
  \E r \in Creating :
    /\ req[r].hdr = NoHeader
    /\ resp.kind = "post" /\ resp.created /\ resp.hdr = NoHeader
    /\ resp.status # 500
    /\ resp.transport > req[r].transport
    /\ resp.sessionId \in DOMAIN sessions

\* C2: while an id is in the session map it maps to the server and transport
\* first recorded under it, every POST that carried it is handled by that
\* pair, and the Mcp-Session-Id response header names the session that
\* handled the request.
C2_SameEngine ==
  /\ \A id \in DOMAIN sessions : sessions[id] = origin[id]
  /\ \A r \in Slots :
       req[r].pc = "dispatched" =>
         /\ req[r].hdr \in DOMAIN origin
         /\ Pair(req[r]) = origin[req[r].hdr]
         /\ req[r].respHdr = req[r].hdr
  /\ resp.kind = "post" /\ ~resp.created =>
       /\ resp.hdr \in DOMAIN origin
       /\ Pair(resp) = origin[resp.hdr]
       /\ resp.respHdr = resp.hdr
  /\ resp.kind = "post" /\ resp.created /\ resp.status # 500 =>
       /\ resp.sessionId \in DOMAIN origin
       /\ Pair(resp) = origin[resp.sessionId]
       /\ resp.respHdr = resp.sessionId
  /\ resp.kind = "tool" =>
       /\ resp.respHdr \in DOMAIN origin
       /\ resp.server = origin[resp.respHdr].server

\* two sessions were created one after the other, and a later tools/list
\* that reuses the first id (initialized by then, so onsessioninitialized
\* has re-recorded it) is answered by the first server
C2_Witness ==
  /\ Cardinality(DOMAIN sessions) = 2
  /\ resp.kind = "post" /\ ~resp.created /\ resp.method = "tools/list"
  /\ resp.status = 200
  /\ resp.hdr = randomUUID(1) /\ resp.server = createMCPServer(1)

\* C3: an id removed by DELETE /mcp is never again a key of the session map,
\* and a POST that arrives with such an id gets a new server and transport
\* under a new id.
C3_DeletedStaysDeleted ==
  [][/\ \A id \in deleted : id \notin DOMAIN sessions'
     /\ \A r \in Slots :
          (req[r].pc = "idle" /\ req'[r].pc # "idle" /\ req'[r].hdr \in deleted)
          => /\ req'[r].created
             /\ req'[r].sessionId # req'[r].hdr
             /\ req'[r].sessionId \notin DOMAIN origin
             /\ req'[r].server \notin Servers(origin)
             /\ req'[r].transport \notin Transports(origin)
     /\ (resp' # resp /\ resp'.kind = "post" /\ resp'.hdr \in deleted)
          => /\ resp'.created
             /\ resp'.sessionId # resp'.hdr]_vars

\* a POST carrying a deleted id has been answered by a session created for it
C3_Witness ==
  /\ resp.kind = "post" /\ resp.hdr \in deleted /\ resp.created
  /\ resp.status = 200
  /\ resp.sessionId \in DOMAIN sessions

\* C4 (as claimed): two POST /mcp racing with the same id that names no
\* session do not produce two engines.
C4_OneEngineForRacers ==
  \A r \in Creating, q \in Creating :
    (req[r].hdr # NoHeader /\ req[r].hdr = req[q].hdr)
    => req[r].server = req[q].server

\* C4 (amended): two POST /mcp racing with the same id that names no session
\* each get their own server and transport under their own new id, which
\* differs from the other's and from the id they carried; an id the server
\* did not issue is never a key of the session map.
C4_RacersGetOwnSessions ==
  /\ \A r \in Creating, q \in Creating :
       (r # q /\ req[r].hdr # NoHeader /\ req[r].hdr = req[q].hdr)
       => /\ req[r].sessionId # req[q].sessionId
          /\ req[r].sessionId # req[r].hdr
          /\ req[q].sessionId # req[r].hdr
          /\ req[r].server # req[q].server
          /\ req[r].transport # req[q].transport
  /\ Bogus \notin DOMAIN sessions
  /\ (resp.kind = "post" /\ resp.created /\ resp.hdr # NoHeader)
       => resp.sessionId # resp.hdr

\* both racers are waiting for server.connect
C4_Witness ==
  \E r \in Creating, q \in Creating :
    r # q /\ req[r].hdr = Bogus /\ req[q].hdr = Bogus

\* C5: DELETE /mcp with the id of a session of the map removes that entry
\* alone and answers 200; with no id, an unknown id or an id already deleted
\* it answers 404 and leaves the map as it was.
C5_DeleteAnswers ==
  [][(resp' # resp /\ resp'.kind = "delete") =>
       /\ IF resp'.id # NoHeader /\ resp'.id \in DOMAIN sessions
          THEN /\ resp'.status = 200
               /\ sessions' = [x \in DOMAIN sessions \ {resp'.id} |-> sessions[x]]
          ELSE /\ resp'.status = 404
               /\ sessions' = sessions
       /\ resp'.id \in deleted => resp'.status = 404]_vars

\* a second DELETE of the same id has been answered 404 while another
\* session is still in the map
C5_Witness ==
  /\ resp.kind = "delete" /\ resp.status = 404 /\ resp.id \in deleted
  /\ sessions # <<>>

\* C6: a session whose client connection has dropped is eventually removed
\* from the session map.
C6_DroppedSessionRemoved ==
  \A n \in 1..MaxUUID :
    (randomUUID(n) \in dropped) ~> (randomUUID(n) \notin DOMAIN sessions)

\* C7: a tools/call with a name that is no case of the switch returns a 200
\* result with isError whose text contains the name, and changes neither
\* the session map nor the tables.
C7_UnknownTool ==
  [][\A r \in Slots :
       (ToolStep(r) /\ resp'.kind = "tool" /\ resp'.call.tool \notin Tools)
       => /\ resp'.isError
          /\ resp'.status = 200
          /\ resp'.call.tool \in Range(resp'.text)
          /\ sessions' = sessions
          /\ entities' = entities
          /\ relations' = relations]_vars

\* an unknown tool has been called on a live session while an entity exists
C7_Witness ==
  /\ resp.kind = "tool" /\ resp.call.tool \in UnknownNames /\ resp.isError
  /\ resp.respHdr \in DOMAIN sessions
  /\ entities # <<>>

\* C8: an error thrown by a tool case (missing arguments, constraint
\* failure, collaborator rejection, storage fault) is returned as a 200
\* result with isError and "Error: " followed by its message; the step
\* changes neither the session map nor the other suspended requests.
C8_FailureIsResult ==
  [][\A r \in Slots :
       (ToolStep(r) /\ resp'.kind = "tool")
       => /\ resp'.thrown # <<>> =>
               /\ resp'.isError
               /\ resp'.status = 200
               /\ resp'.text = <<"Error: ">> \o resp'.thrown
               /\ sessions' = sessions
               /\ tinit' = tinit
               /\ \A q \in Slots \ {r} : req'[q] = req[q]
          /\ "noargs" \in DOMAIN resp'.call => resp'.isError
          /\ ("noargs" \notin DOMAIN resp'.call
              /\ resp'.call.tool = "memory_store"
              /\ resp'.call.name = Absent)
               => resp'.isError
          /\ ("noargs" \notin DOMAIN resp'.call
              /\ resp'.call.tool = "memory_relate"
              /\ resp'.call.from_id \notin DOMAIN entities)
               => resp'.isError]_vars

\* a storage fault was returned on a session that is still in the map, with
\* another request of the same session suspended
C8_Witness ==
  /\ resp.kind = "tool" /\ resp.isError /\ resp.thrown = IOError
  /\ resp.respHdr \in DOMAIN sessions
  /\ \E r \in Slots : req[r].pc = "dispatched" /\ req[r].hdr = resp.respHdr

\* C9: right after memory_store has returned id X, memory_recall(X) returns
\* found with the name, type, content and metadata stored, whatever else is
\* in the table.
C9_StoreThenRecall ==
  (resp.kind = "tool" /\ resp.call.tool = "memory_store" /\ ~resp.isError)
  => \A res \in memoryRecall(entities, resp.res.id) :
       /\ res.found
       /\ res.id = resp.res.id
       /\ res.name = resp.call.name
       /\ res.type = resp.call.type
       /\ res.content = resp.call.content
       /\ res.metadata = OrEmpty(resp.call.metadata)

\* the entity just stored carries metadata and is named after the id of
\* another entity of the table
C9_Witness ==
  /\ resp.kind = "tool" /\ resp.call.tool = "memory_store" /\ ~resp.isError
  /\ resp.call.metadata = Obj1
  /\ resp.call.name \in DOMAIN entities
  /\ resp.res.id \in DOMAIN entities

\* C10: memory_update with an id that is the id of no entity returns
\* updated = false without an error and leaves both tables as they were.
C10_UpdateMissing ==
  [][\A r \in Slots :
       (ToolStep(r) /\ resp'.kind = "tool"
        /\ resp'.call.tool = "memory_update"
        /\ "noargs" \notin DOMAIN resp'.call
        /\ resp'.call.id \notin DOMAIN entities)
       => /\ ~resp'.isError
          /\ resp'.res.updated = FALSE
          /\ entities' = entities
          /\ relations' = relations]_vars

\* the id passed is the name of an entity of the table, but no entity's id
C10_Witness ==
  /\ resp.kind = "tool" /\ resp.call.tool = "memory_update"
  /\ ~resp.isError
  /\ resp.call.id \notin DOMAIN entities
  /\ \E e \in DOMAIN entities : entities[e].name = resp.call.id
  /\ relations # <<>>

\* the relations that have entity id as an endpoint
RelationsOf(rels, id) ==
  {k \in DOMAIN rels : rels[k].from_entity = id \/ rels[k].to_entity = id}

\* C11: memory_delete of an entity that is an endpoint of relations returns
\* deleted = true, removes that entity alone and leaves the relations in
\* place: memoryGetRelations on the other endpoint still returns each of
\* them, with the name and type of the deleted side null.
C11_DeleteLeavesRelations ==
  [][\A r \in Slots :
       (ToolStep(r) /\ resp'.kind = "tool"
        /\ resp'.call.tool = "memory_delete"
        /\ "id" \in DOMAIN resp'.call
        /\ resp'.call.id \in DOMAIN entities
        /\ RelationsOf(relations, resp'.call.id) # {})
       => /\ ~resp'.isError
          /\ resp'.res.deleted
          /\ entities' = memoryDelete(entities, resp'.call.id)
          /\ relations' = relations
          /\ \A k \in RelationsOf(relations, resp'.call.id) :
               \A o \in {relations[k].from_entity, relations[k].to_entity} :
                 \E row \in memoryGetRelations(entities', relations', o).relations :
                   /\ row.id = k
                   /\ row.from_entity = resp'.call.id
                        => row.from_name = SqlNull /\ row.from_type = SqlNull
                   /\ row.to_entity = resp'.call.id
                        => row.to_name = SqlNull /\ row.to_type = SqlNull]_vars

\* C12: memory_relate returns created = true and adds exactly one relation
\* under a new id, whether or not from_id and to_id are ids of entities and
\* whether or not the same (from, to, relation_type) is already related; the
\* entities stay as they were.
C12_RelateAlwaysSucceeds ==
  [][\A r \in Slots :
       (ToolStep(r) /\ resp'.kind = "tool"
        /\ resp'.call.tool = "memory_relate"
        /\ "from_id" \in DOMAIN resp'.call)
       => /\ ~resp'.isError
          /\ resp'.res.created
          /\ resp'.res.id \notin DOMAIN relations
          /\ DOMAIN relations' = DOMAIN relations \cup {resp'.res.id}
          /\ \A k \in DOMAIN relations : relations'[k] = relations[k]
          /\ relations'[resp'.res.id].from_entity = resp'.call.from_id
          /\ relations'[resp'.res.id].to_entity = resp'.call.to_id
          /\ entities' = entities]_vars

\* the updated_at values of a result list never increase
Descending(l) ==
  \A i, j \in DOMAIN l : i < j => l[i].updated_at >= l[j].updated_at

C16_ListCapped ==
  (resp.kind = "tool" /\ resp.call.tool = "memory_list" /\ ~resp.isError)
  => LET l == resp.res.entities
         lim == resp.call.limit
     IN /\ resp.call.type # Absent
             => \A i \in DOMAIN l : l[i].type = resp.call.type
        /\ Descending(l)
        /\ resp.res.count = Len(l)
        /\ Len(l) <= (IF ~lim.given THEN DefaultLimit
                      ELSE IF lim.n < 0 THEN 0 ELSE lim.n)

\* C14: memory_store adds exactly one entity, under an id that no entity had
\* before, also when the name is that of an existing entity; the entities
\* that existed and the relations stay as they were.
C14_StoreAddsOne ==
  [][\A r \in Slots :
       (ToolStep(r) /\ resp'.kind = "tool"
        /\ resp'.call.tool = "memory_store"
        /\ "name" \in DOMAIN resp'.call)
       => /\ ~resp'.isError
          /\ resp'.res.id \notin DOMAIN entities
          /\ resp'.res.id \notin DOMAIN relations
          /\ DOMAIN entities' = DOMAIN entities \cup {resp'.res.id}
          /\ \A x \in DOMAIN entities : entities'[x] = entities[x]
          /\ entities'[resp'.res.id].name = resp'.call.name
          /\ relations' = relations]_vars

\* an entity was stored under the name of an entity that is still there,
\* next to a relation
C14_Witness ==
  /\ resp.kind = "tool" /\ resp.call.tool = "memory_store" /\ ~resp.isError
  /\ resp.res.id \in DOMAIN entities
  /\ \E x \in DOMAIN entities \ {resp.res.id} :
       entities[x].name = resp.call.name
  /\ relations # <<>>

C18_UpdateFrame ==
  [][\A r \in Slots :
       (ToolStep(r) /\ resp'.kind = "tool"
        /\ resp'.call.tool = "memory_update"
        /\ "id" \in DOMAIN resp'.call
        /\ resp'.call.id \in DOMAIN entities)
       => LET id == resp'.call.id IN
          /\ ~resp'.isError
          /\ resp'.res.updated
          /\ DOMAIN entities' = DOMAIN entities
          /\ entities'[id].content = resp'.call.content
          /\ entities'[id].metadata =
               (IF resp'.call.metadata = Undefined
                THEN entities[id].metadata
                ELSE JSONstringify(resp'.call.metadata))
          /\ entities'[id].updated_at = now
          /\ entities'[id].updated_at >= entities[id].updated_at
          /\ entities'[id].name = entities[id].name
          /\ entities'[id].type = entities[id].type
          /\ entities'[id].created_at = entities[id].created_at
          /\ \A x \in DOMAIN entities \ {id} : entities'[x] = entities[x]
          /\ relations' = relations]_vars

\* an entity that carries metadata was given new content, without metadata,
\* a second after it was stored, next to another entity and a relation
C18_Witness ==
  /\ resp.kind = "tool" /\ resp.call.tool = "memory_update" /\ ~resp.isError
  /\ resp.res.updated
  /\ resp.call.metadata = Undefined
  /\ resp.call.id \in DOMAIN entities
  /\ entities[resp.call.id].metadata = JSONstringify(Obj1)
  /\ entities[resp.call.id].updated_at > entities[resp.call.id].created_at
  /\ Cardinality(DOMAIN entities) > 1
  /\ relations # <<>>

\* C17: memory_get_relations(e) returns the relations that have e as from or
\* to endpoint, each once (also one whose two endpoints are e) and no
\* other, count being their number, each with the name and type that its
\* two endpoints have now; the tables stay as they were.
C17_GetRelations ==
  [][\A r \in Slots :
       (ToolStep(r) /\ resp'.kind = "tool"
        /\ resp'.call.tool = "memory_get_relations"
        /\ "entity_id" \in DOMAIN resp'.call)
       => LET e == resp'.call.entity_id
              rows == resp'.res.relations
          IN /\ ~resp'.isError
             /\ {row.id : row \in rows} = RelationsOf(relations, e)
             /\ Cardinality(rows) = Cardinality(RelationsOf(relations, e))
             /\ resp'.res.count = Cardinality(RelationsOf(relations, e))
             /\ \A row \in rows :
                  /\ row.from_entity = relations[row.id].from_entity
                  /\ row.to_entity = relations[row.id].to_entity
                  /\ row.relation_type = relations[row.id].relation_type
                  /\ row.from_entity \in DOMAIN entities
                       => /\ row.from_name = entities[row.from_entity].name
                          /\ row.from_type = entities[row.from_entity].type
                  /\ row.to_entity \in DOMAIN entities
                       => /\ row.to_name = entities[row.to_entity].name
                          /\ row.to_type = entities[row.to_entity].type
             /\ entities' = entities
             /\ relations' = relations]_vars

\* store n1 -> A, store n2 -> B, relate(A, B, depends_on) -> R, then
\* memory_get_relations(A): count 1, R with to_name n2
C17_Witness ==
  /\ resp.kind = "tool" /\ resp.call.tool = "memory_get_relations"
  /\ ~resp.isError
  /\ resp.call.entity_id \in DOMAIN entities
  /\ entities[resp.call.entity_id].name = "n1"
  /\ entities[resp.call.entity_id].content = "c1"
  /\ resp.res.count = 1
  /\ \E row \in resp.res.relations :
       /\ row.id \in DOMAIN relations
       /\ row.from_entity = resp.call.entity_id
       /\ row.to_entity # resp.call.entity_id
       /\ row.relation_type = "depends_on"
       /\ row.to_name = "n2"
       /\ entities[row.to_entity].content = "c2"

WriteTools == {"memory_store", "memory_update", "memory_delete",
               "memory_relate"}

\* C19: whatever the interleaving of the tool calls of one or several
\* sessions, each step of a memory tool applies one whole operation to the
\* tables or none of it: a call that returns an error leaves both tables as
\* they were, a call that succeeds writes its complete effect in the step in
\* which it answers, a reading call answers from the tables as they are in
\* that step, and no other step changes the tables.
C19_AtomicOperations ==
  [][/\ (entities' # entities \/ relations' # relations)
          => \E r \in Slots :
               /\ ToolStep(r) /\ resp'.kind = "tool" /\ ~resp'.isError
               /\ resp'.call.tool \in WriteTools
     /\ \A r \in Slots :
          (ToolStep(r) /\ resp'.kind = "tool")
          => LET c == resp'.call
                 t == c.tool
             IN
             /\ \A q \in Slots \ {r} : req'[q] = req[q]
             /\ resp'.isError => entities' = entities /\ relations' = relations
             /\ t \notin WriteTools
                  => entities' = entities /\ relations' = relations
             /\ (~resp'.isError /\ t = "memory_store")
                  => /\ relations' = relations
                     /\ DOMAIN entities' = DOMAIN entities \cup {resp'.res.id}
                     /\ \A x \in DOMAIN entities : entities'[x] = entities[x]
                     /\ entities'[resp'.res.id] =
                          [name |-> c.name, type |-> c.type,
                           content |-> c.content,
                           metadata |-> JSONstringify(OrEmpty(c.metadata)),
                           created_at |-> now, updated_at |-> now]
             /\ (~resp'.isError /\ t = "memory_update")
                  => /\ relations' = relations
                     /\ DOMAIN entities' = DOMAIN entities
                     /\ \A x \in DOMAIN entities \ {c.id} :
                          entities'[x] = entities[x]
                     /\ resp'.res.updated = (c.id \in DOMAIN entities)
                     /\ c.id \in DOMAIN entities
                          => /\ entities'[c.id].content = c.content
                             /\ entities'[c.id].updated_at = now
             /\ (~resp'.isError /\ t = "memory_delete")
                  => /\ relations' = relations
                     /\ DOMAIN entities' = DOMAIN entities \ {c.id}
                     /\ \A x \in DOMAIN entities' : entities'[x] = entities[x]
                     /\ resp'.res.deleted = (c.id \in DOMAIN entities)
             /\ (~resp'.isError /\ t = "memory_relate")
                  => /\ entities' = entities
                     /\ DOMAIN relations' = DOMAIN relations \cup {resp'.res.id}
                     /\ resp'.res.id \notin DOMAIN relations
                     /\ \A k \in DOMAIN relations : relations'[k] = relations[k]
                     /\ relations'[resp'.res.id].from_entity = c.from_id
                     /\ relations'[resp'.res.id].to_entity = c.to_id
                     /\ relations'[resp'.res.id].relation_type = c.relation_type
             /\ (~resp'.isError /\ t = "memory_recall")
                  => resp'.res \in memoryRecall(entities, c.name_or_id)
             /\ (~resp'.isError /\ t = "memory_search")
                  => resp'.res \in memorySearch(entities, c.query, c.type)
             /\ (~resp'.isError /\ t = "memory_list")
                  => resp'.res \in memoryList(entities, c.type,
                                              LimitOrDefault(c.limit))
             /\ (~resp'.isError /\ t = "memory_get_relations")
                  => resp'.res = memoryGetRelations(entities, relations,
                                                    c.entity_id)]_vars

\* a call of one session has failed on a storage fault after an entity was
\* stored, while a call of another session is waiting to run
C19_Witness ==
  /\ resp.kind = "tool" /\ resp.isError /\ resp.thrown = IOError
  /\ resp.call.tool \in WriteTools
  /\ entities # <<>>
  /\ \E r \in Slots :
       /\ req[r].pc = "dispatched"
       /\ req[r].hdr # resp.respHdr

C21_SharedStore ==
  [][/\ (\/ sessions' # sessions
         \/ \E r \in Slots : req[r].pc = "connecting" /\ req'[r] # req[r]
         \/ \E r \in Slots : req'[r].pc = "connecting" /\ req'[r] # req[r]
         \/ resp'.kind = "delete" /\ resp' # resp)
        => (entities' = entities /\ relations' = relations)
     /\ \A r \in Slots :
          (/\ ToolStep(r)
           /\ resp'.kind = "tool" /\ resp'.call.tool = "memory_recall"
           /\ ~resp'.isError
           /\ resp'.call.name_or_id \in DOMAIN entities)
          => /\ resp'.res.found
             /\ resp'.res \in memoryRecall(entities, resp'.call.name_or_id)
    ]_vars

\* the entity u2 was stored through session u1, session u1 has been
\* terminated, and a recall through session u3 returns the entity
C21_Witness ==
  /\ resp.kind = "tool" /\ resp.call.tool = "memory_recall"
  /\ ~resp.isError /\ resp.res.found
  /\ resp.res.id = randomUUID(2)
  /\ resp.respHdr = randomUUID(3)
  /\ randomUUID(1) \in deleted
  /\ randomUUID(2) \in DOMAIN entities

\* C22: while the tool handler of one request hangs, every other request in
\* flight (a session being created, a tool call that was dispatched)
\* completes under fair scheduling, and a DELETE is answered in the step in
\* which it is handled.
C22_OthersComplete ==
  \A q \in Slots :
    ((\E h \in Slots : h # q /\ req[h].pc = "hung")
       /\ req[q].pc \in {"connecting", "dispatched"})
    ~> (req[q].pc = "idle")

\* a handler of session u1 hangs, and a memory_store made afterwards through
\* another session has returned its result
C22_Witness ==
  \E h \in Slots :
    /\ req[h].pc = "hung"
    /\ req[h].sessionId = randomUUID(1)
    /\ resp.kind = "tool" /\ resp.call.tool = "memory_store"
    /\ ~resp.isError
    /\ resp.respHdr # req[h].sessionId
    /\ resp.res.id = randomUUID(uuids)
    /\ uuids > req[h].minted

\* C23: a DELETE changes no handler in flight and no table; a tool call that
\* was dispatched before its session was deleted still runs to its return,
\* and a memory_store among them inserts its one row, under a fresh id,
\* exactly once.
C23_DeleteDoesNotInterrupt ==
  /\ [][/\ (deleted' # deleted)
            => (req' = req /\ entities' = entities /\ relations' = relations)
         /\ \A r \in Slots :
              (/\ ToolStep(r)
               /\ req[r].sessionId \in deleted
               /\ resp'.kind = "tool" /\ resp'.call.tool = "memory_store"
               /\ ~resp'.isError)
              => /\ resp'.respHdr = req[r].sessionId
                 /\ resp'.res.id \notin DOMAIN entities
                 /\ entities' = memoryStore(entities, resp'.res.id,
                                   resp'.call.name, resp'.call.type,
                                   resp'.call.content,
                                   OrEmpty(resp'.call.metadata), now)
                 /\ DOMAIN entities' = DOMAIN entities \cup {resp'.res.id}
        ]_vars
  /\ \A r \in Slots :
       (req[r].pc = "dispatched" /\ req[r].sessionId \in deleted)
       ~> (req[r].pc = "idle")

\* the memory_store of a session that was deleted while the call was in
\* flight has returned, and its entity is in the table
C23_Witness ==
  /\ resp.kind = "tool" /\ resp.call.tool = "memory_store"
  /\ ~resp.isError
  /\ resp.respHdr \in deleted
  /\ resp.res.id \in DOMAIN entities
  /\ entities[resp.res.id].name = resp.call.name

\* text contains q as a substring, character for character
Contains(text, q) ==
  \E i \in 0..(Len(text) - Len(q)) : SubSeq(text, i + 1, i + Len(q)) = q

\* C24: memory_search returns exactly the entities (of the given type, when
\* one is given) whose name or content contains the query as a substring,
\* also for a query that contains % or _, each with its content in full
\* when it has at most 200 characters and else its first 200 followed by
\* '...'.
C24_SearchSubstring ==
  [][\A r \in Slots :
       (ToolStep(r) /\ resp'.kind = "tool"
        /\ resp'.call.tool = "memory_search" /\ ~resp'.isError)
       => LET l == resp'.res.entities
              q == resp'.call.query
              type == resp'.call.type
          IN
          /\ {l[i].id : i \in DOMAIN l} =
               {x \in DOMAIN entities :
                  /\ \/ Contains(Chars(entities[x].name), q)
                     \/ Contains(Chars(entities[x].content), q)
                  /\ type # Absent => entities[x].type = type}
          /\ \A i \in DOMAIN l :
               LET c == Chars(entities[l[i].id].content) IN
               l[i].content = IF Len(c) <= PreviewLen THEN c
                              ELSE SubSeq(c, 1, PreviewLen) \o <<"...">>
    ]_vars

\* the step in which the await server.connect of frame r settles
ConnectSettles(r) == req[r].pc = "connecting" /\ req'[r].pc # "connecting"

\* the step is a DELETE /mcp that removed a session
DeleteStep == deleted' # deleted

\* C25 (as stated): an entry leaves the map only by the DELETE for its id,
\* every POST /mcp without a live session id adds exactly one entry, and
\* without a DELETE the number of sessions never decreases.
C25_EveryPostAddsEntry ==
  [][/\ (DOMAIN sessions \ DOMAIN sessions' # {})
        => /\ resp'.kind = "delete" /\ resp'.status = 200
           /\ DOMAIN sessions \ DOMAIN sessions' = {resp'.id}
     /\ \A r \in Slots :
          ConnectSettles(r)
          => /\ req[r].sessionId \notin DOMAIN sessions
             /\ DOMAIN sessions' = DOMAIN sessions \cup {req[r].sessionId}
     /\ ~DeleteStep
        => Cardinality(DOMAIN sessions') >= Cardinality(DOMAIN sessions)
    ]_vars

\* C25 (amended): an entry leaves the map only by the DELETE for its id;
\* every POST /mcp without a live session id whose server.connect resolves
\* adds exactly one entry, under its new id, also when the transport then
\* rejects the request it carries; one whose server.connect rejects is
\* answered 500 and adds none; without a DELETE the number of sessions never
\* decreases.
C25_NoEviction ==
  [][/\ (DOMAIN sessions \ DOMAIN sessions' # {})
        => /\ resp'.kind = "delete" /\ resp'.status = 200
           /\ DOMAIN sessions \ DOMAIN sessions' = {resp'.id}
     /\ \A r \in Slots :
          ConnectSettles(r)
          => /\ req[r].sessionId \notin DOMAIN sessions
             /\ resp'.kind = "post"
             /\ resp'.sessionId = req[r].sessionId
             /\ IF resp'.status = 500
                THEN sessions' = sessions
                ELSE DOMAIN sessions' =
                       DOMAIN sessions \cup {req[r].sessionId}
     /\ ~DeleteStep
        => Cardinality(DOMAIN sessions') >= Cardinality(DOMAIN sessions)
    ]_vars

\* a tools/call without a live session id was rejected by the new,
\* uninitialised transport, and the session made for it is in the map next
\* to an older one
C25_Witness ==
  /\ resp.kind = "post" /\ resp.created
  /\ resp.method = "tools/call" /\ resp.status = 400
  /\ resp.sessionId \in DOMAIN sessions
  /\ Cardinality(DOMAIN sessions) = 2

\* the ids the server has minted for sessions: the values of the
\* sessionIdGenerator closures of the transports constructed so far
Minted == {topts[o].sessionId : o \in DOMAIN topts}

\* C26: every key of the session map was minted by the server with
\* randomUUID() for a session; a request whose Mcp-Session-Id names no live
\* session is bound to a new id that differs from the one it supplied, and
\* the supplied id is not a key of the map because of it.
C26_KeysAreMinted ==
  /\ DOMAIN sessions \subseteq Minted
  /\ Minted \subseteq {randomUUID(n) : n \in 1..uuids}
  /\ \A r \in Slots :
       (req[r].pc # "idle" /\ req[r].created)
       => /\ req[r].sessionId \in Minted
          /\ req[r].sessionId # req[r].hdr
          /\ req[r].hdr \in DOMAIN sessions => req[r].hdr \notin deleted
  /\ (resp.kind = "post" /\ resp.created)
       => /\ resp.sessionId \in Minted
          /\ resp.sessionId # resp.hdr
  /\ DOMAIN sessions \cap (deleted \cup {Bogus, NoHeader}) = {}

\* a request that carried the id of a deleted session was answered under a
\* new id, which is a key of the map while the id it carried is not
C26_Witness ==
  /\ resp.kind = "post" /\ resp.created /\ resp.status = 200
  /\ resp.hdr \in deleted
  /\ resp.hdr \notin DOMAIN sessions
  /\ resp.sessionId \in DOMAIN sessions
  /\ resp.respHdr = resp.sessionId

\* C27: when server.connect rejects, the request is answered 500 and the
\* session map is what it was; the id of a session being connected, or of
\* one whose connect was rejected, is no key of the session map and never
\* was one.
C27_FailedConnectLeavesNoEntry ==
  [][/\ \A r \in Slots :
          (ConnectSettles(r) /\ sessions' = sessions)
          => /\ resp' = PostResponse(req[r], 500)
             /\ req'[r] = IdleReq
     /\ \A r \in Slots :
          (ConnectSettles(r) /\ resp'.kind = "post" /\ resp'.status = 500)
          => sessions' = sessions
     /\ \A r \in Slots :
          req'[r].pc = "connecting"
          => /\ req'[r].sessionId \notin DOMAIN sessions'
             /\ req'[r].sessionId \notin DOMAIN origin'
     /\ (resp'.kind = "post" /\ resp'.status = 500)
        => /\ resp'.sessionId \notin DOMAIN sessions'
           /\ resp'.sessionId \notin DOMAIN origin'
    ]_vars

\* the creation of a session failed with 500 while an older session is in
\* the map
C27_Witness ==
  /\ resp.kind = "post" /\ resp.status = 500 /\ resp.created
  /\ DOMAIN sessions # {}
  /\ resp.sessionId \notin DOMAIN sessions
  /\ resp.sessionId \in Minted

\* p is the workspace directory or a path below it
Inside(p) ==
  p = WORKSPACE_DIR \/ startsWith(p, WORKSPACE_DIR \o <<"/">>)

\* C28: every path on which an fs_* tool performs a file operation is the
\* workspace directory or lies below it, whatever the path argument ('..'
\* segments, absolute paths, a sibling directory whose name starts with the
\* name of the workspace directory); every file and directory the tools
\* have made is inside the workspace.
C28_StaysInWorkspace ==
  /\ (fs.last.kind = "fs" /\ fs.last.touched # <<>>) => Inside(fs.last.touched)
  /\ \A e \in Edits : fs.ed[e].pc = "writing" => Inside(fs.ed[e].fullPath)
  /\ \A x \in DOMAIN fs.files : Inside(x)
  /\ \A x \in fs.dirs : Inside(x) \/ x \in Upward(WORKSPACE_DIR)

\* C29: the file holds the new_text of every fs_edit_file call that reported
\* success on it since it was last written as a whole, also when two calls
\* with different old_text ran concurrently; a call whose old_text is not in
\* the file fails with 'Old text not found in file' and leaves the files as
\* they were.
C29_NoLostEdit ==
  [][/\ \A a \in fs'.applied :
          /\ a.path \in DOMAIN fs'.files
          /\ includes(fs'.files[a.path], a.new)
     /\ (/\ fs'.last # fs.last
         /\ fs'.last.kind = "fs"
         /\ fs'.last.err = <<"Old text not found in file">>)
        => /\ fs'.last.tool = "fs_edit_file"
           /\ fs'.last.isError
           /\ fs'.files = fs.files
    ]_vars

\* C30: in the SSE variant a POST /messages that addresses a connected
\* session is processed by the transport of that session and no other, and
\* 404 is answered only when the addressed session is not connected.
C30_AddressedTransport ==
  [][(sse'.last # sse.last /\ sse'.last.kind = "messages")
       => LET live == {sse.transports[i] : i \in DOMAIN sse.transports}
              m == sse'.last
          IN /\ m.addr \in live => (m.by = m.addr /\ m.status # 404)
             /\ m.status = 404 => (m.by = 0 /\ m.addr \notin live)
             /\ m.by # 0 => m.by \in live
    ]_vars

====
